---- MODULE Spec2Model ----
(***************************************************************************)
(* Model of the Slack MCP server of src/main.py: the call_tool dispatcher, *)
(* the Nango credential fetch it starts with, and the SlackClient methods  *)
(* it routes to.  One invocation of call_tool is a coroutine that suspends *)
(* at two awaits (the credential fetch, the Slack call); everything        *)
(* between two awaits runs atomically on the asyncio event loop.           *)
(***************************************************************************)
EXTENDS Integers, Sequences, FiniteSets, TLC

(***************************************************************************)
(* Bounds of the model.                                                    *)
(***************************************************************************)
\* invocation slots the transport may have in flight at once
NumCalls == 2
\* credential fetches the broker answers in one run (caps the token counter)
MaxIssued == 3

Calls == 1..NumCalls

(***************************************************************************)
(* JSON values as Python holds them after json() / in the argument dict.   *)
(* Strings are drawn from an alphabet json.dumps leaves unescaped.         *)
(***************************************************************************)
Null == [t |-> "null"]
Bool(b) == [t |-> "bool", b |-> b]
Str(s) == [t |-> "str", s |-> s]
Num(n) == [t |-> "num", n |-> n]
Arr(a) == [t |-> "arr", a |-> a]
Obj(o) == [t |-> "obj", o |-> o]
\* a key the argument dict does not hold
Absent == [t |-> "absent"]

Digit(d) == <<"0", "1", "2", "3", "4", "5", "6", "7", "8", "9">>[d + 1]

RECURSIVE IntStr(_)
IntStr(n) ==
    IF n < 0 THEN "-" \o IntStr(-n)
    ELSE IF n < 10 THEN Digit(n)
    ELSE IntStr(n \div 10) \o Digit(n % 10)

\* Python's str() of a value
PyStr(v) ==
    CASE v.t = "null" -> "None"
      [] v.t = "bool" -> (IF v.b THEN "True" ELSE "False")
      [] v.t = "str" -> v.s
      [] v.t = "num" -> IntStr(v.n)

\* Python truthiness, the test behind `not x` and `if x`
Truthy(v) ==
    CASE v.t = "null" -> FALSE
      [] v.t = "absent" -> FALSE
      [] v.t = "bool" -> v.b
      [] v.t = "str" -> v.s # ""
      [] v.t = "num" -> v.n # 0
      [] v.t = "arr" -> Len(v.a) > 0
      [] v.t = "obj" -> Len(v.o) > 0

IsDict(v) == v.t = "obj"

HasKey(d, k) == \E j \in 1..Len(d.o) : d.o[j][1] = k

\* dict.get(k): the value, or None
DictGet(d, k) ==
    IF HasKey(d, k)
    THEN d.o[CHOOSE j \in 1..Len(d.o) : d.o[j][1] = k][2]
    ELSE Null

\* json.dumps with its default separators, keys in insertion order
RECURSIVE Dumps(_)
RECURSIVE DumpsItems(_, _)
RECURSIVE DumpsElems(_, _)
DumpsItems(o, j) ==
    IF j > Len(o) THEN ""
    ELSE (IF j > 1 THEN ", " ELSE "")
         \o "\"" \o o[j][1] \o "\": " \o Dumps(o[j][2])
         \o DumpsItems(o, j + 1)
DumpsElems(a, j) ==
    IF j > Len(a) THEN ""
    ELSE (IF j > 1 THEN ", " ELSE "") \o Dumps(a[j]) \o DumpsElems(a, j + 1)
Dumps(v) ==
    CASE v.t = "null" -> "null"
      [] v.t = "bool" -> (IF v.b THEN "true" ELSE "false")
      [] v.t = "str" -> "\"" \o v.s \o "\""
      [] v.t = "num" -> IntStr(v.n)
      [] v.t = "arr" -> "[" \o DumpsElems(v.a, 1) \o "]"
      [] v.t = "obj" -> "{" \o DumpsItems(v.o, 1) \o "}"

\* urllib.parse.urlencode of a dict of strings (no character needs quoting)
RECURSIVE Urlencode(_, _)
Urlencode(p, j) ==
    IF j > Len(p) THEN ""
    ELSE (IF j > 1 THEN "&" ELSE "") \o p[j][1] \o "=" \o p[j][2]
         \o Urlencode(p, j + 1)

(***************************************************************************)
(* Exceptions: the text str(error) gives for each kind the code can meet.  *)
(***************************************************************************)
ConnectErrorMsg == "All connection attempts failed"
HTTPStatusErrorMsg(status) == "HTTP status error " \o IntStr(status)
JSONDecodeErrorMsg == "Expecting value: line 1 column 1 (char 0)"
TypeName(v) ==
    CASE v.t = "null" -> "NoneType"
      [] v.t = "bool" -> "bool"
      [] v.t = "str" -> "str"
      [] v.t = "num" -> "int"
      [] v.t = "arr" -> "list"
      [] v.t = "obj" -> "dict"
AttributeErrorMsg(v) == "'" \o TypeName(v) \o "' object has no attribute 'get'"
MinTypeErrorMsg(v) ==
    "'<' not supported between instances of 'int' and '" \o TypeName(v) \o "'"

Raise(msg) == [kind |-> "raise", msg |-> msg]
Return(v) == [kind |-> "return", v |-> v]

(***************************************************************************)
(* SlackClient                                                             *)
(***************************************************************************)
NoClient == [built |-> FALSE]

SlackClientInit(bot_token, team_id) ==
    [built |-> TRUE,
     bot_headers |-> [Authorization |-> "Bearer " \o PyStr(bot_token),
                      ContentType |-> "application/json"],
     team_id |-> team_id]

NoReq == [sent |-> FALSE]

HttpGet(self, endpoint, params) ==
    [sent |-> TRUE, method |-> "GET", endpoint |-> endpoint, params |-> params,
     url |-> "https://slack.com/api/" \o endpoint \o "?" \o Urlencode(params, 1),
     headers |-> self.bot_headers, json |-> Null]

HttpPost(self, endpoint, body) ==
    [sent |-> TRUE, method |-> "POST", endpoint |-> endpoint, params |-> <<>>,
     url |-> "https://slack.com/api/" \o endpoint,
     headers |-> self.bot_headers, json |-> body]

\* mutant: the limit is forwarded as given
ClampLimitNone(limit) == limit

\* min(limit, 200) of get_channels and get_users
ClampLimit(limit) == IF limit.n < 200 THEN limit ELSE Num(200)

CursorParam(cursor) ==
    IF Truthy(cursor) THEN << <<"cursor", PyStr(cursor)>> >> ELSE <<>>

get_channels(self, limit, cursor) ==
    IF limit.t # "num" THEN Raise(MinTypeErrorMsg(limit))
    ELSE [kind |-> "call",
          req |-> HttpGet(self, "conversations.list",
                     << <<"types", "public_channel">>,
                        <<"exclude_archived", "true">>,
                        <<"limit", PyStr(ClampLimit(limit))>>,
                        <<"team_id", PyStr(self.team_id)>> >>
                     \o CursorParam(cursor))]

get_conversation_info(self, channel_id) ==
    [kind |-> "call",
     req |-> HttpGet(self, "conversations.info",
                     << <<"channel", PyStr(channel_id)>> >>)]

post_message(self, channel_id, text) ==
    [kind |-> "call",
     req |-> HttpPost(self, "chat.postMessage",
                      Obj(<< <<"channel", channel_id>>, <<"text", text>> >>))]

post_reply(self, channel_id, thread_ts, text) ==
    [kind |-> "call",
     req |-> HttpPost(self, "chat.postMessage",
                      Obj(<< <<"channel", channel_id>>,
                             <<"thread_ts", thread_ts>>,
                             <<"text", text>> >>))]

add_reaction(self, channel_id, timestamp, reaction) ==
    [kind |-> "call",
     req |-> HttpPost(self, "reactions.add",
                      Obj(<< <<"channel", channel_id>>,
                             <<"timestamp", timestamp>>,
                             <<"name", reaction>> >>))]

get_channel_history(self, channel_id, limit) ==
    [kind |-> "call",
     req |-> HttpGet(self, "conversations.history",
                     << <<"channel", PyStr(channel_id)>>,
                        <<"limit", PyStr(limit)>> >>)]

get_thread_replies(self, channel_id, thread_ts) ==
    [kind |-> "call",
     req |-> HttpGet(self, "conversations.replies",
                     << <<"channel", PyStr(channel_id)>>,
                        <<"ts", PyStr(thread_ts)>> >>)]

get_users(self, limit, cursor) ==
    IF limit.t # "num" THEN Raise(MinTypeErrorMsg(limit))
    ELSE [kind |-> "call",
          req |-> HttpGet(self, "users.list",
                     << <<"limit", PyStr(ClampLimit(limit))>>,
                        <<"team_id", PyStr(self.team_id)>> >>
                     \o CursorParam(cursor))]

get_user_profile(self, user_id) ==
    [kind |-> "call",
     req |-> HttpGet(self, "users.profile.get",
                     << <<"user", PyStr(user_id)>>,
                        <<"include_labels", "true">> >>)]

\* mutant: the status is checked before the body is decoded
ResponseJsonChecked(reply) ==
    IF reply.kind = "unreachable" THEN Raise(ConnectErrorMsg)
    ELSE IF ~(reply.status \in 200..299)
         THEN Raise(HTTPStatusErrorMsg(reply.status))
    ELSE IF ~reply.json THEN Raise(JSONDecodeErrorMsg)
    ELSE Return(reply.body)

\* `await client.get/post(...)` then `response.json()`: the status is not read
ResponseJson(reply) ==
    IF reply.kind = "unreachable" THEN Raise(ConnectErrorMsg)
    ELSE IF ~reply.json THEN Raise(JSONDecodeErrorMsg)
    ELSE Return(reply.body)

\* mutant: is_archived is not looked at
ConversationInfoResultAny(data) ==
    IF ~IsDict(data) THEN Raise(AttributeErrorMsg(data))
    ELSE IF ~Truthy(DictGet(data, "ok")) THEN Return(Null)
    ELSE IF ~Truthy(DictGet(data, "channel")) THEN Return(Null)
    ELSE Return(DictGet(data, "channel"))

\* the tail of get_conversation_info: the channel, or None by falling off the end
ConversationInfoResult(data) ==
    IF ~IsDict(data) THEN Raise(AttributeErrorMsg(data))
    ELSE IF ~Truthy(DictGet(data, "ok")) THEN Return(Null)
    ELSE IF ~Truthy(DictGet(data, "channel")) THEN Return(Null)
    ELSE IF ~IsDict(DictGet(data, "channel"))
         THEN Raise(AttributeErrorMsg(DictGet(data, "channel")))
    ELSE IF Truthy(DictGet(DictGet(data, "channel"), "is_archived"))
         THEN Return(Null)
    ELSE Return(DictGet(data, "channel"))

\* what the awaited SlackClient method gives back to call_tool
MethodResult(name, reply) ==
    IF ResponseJson(reply).kind = "raise" THEN ResponseJson(reply)
    ELSE IF name = "get_conversation_info"
         THEN ConversationInfoResult(ResponseJson(reply).v)
    ELSE ResponseJson(reply)

(***************************************************************************)
(* Tool registry                                                           *)
(***************************************************************************)
TOOLS ==
    << [name |-> "slack_list_channels", required |-> {}],
       [name |-> "slack_post_message", required |-> {"channel_id", "text"}],
       [name |-> "slack_reply_to_thread",
        required |-> {"channel_id", "thread_ts", "text"}],
       [name |-> "slack_add_reaction",
        required |-> {"channel_id", "timestamp", "reaction"}],
       [name |-> "slack_get_channel_history", required |-> {"channel_id"}],
       [name |-> "slack_get_thread_replies",
        required |-> {"channel_id", "thread_ts"}],
       [name |-> "slack_get_users", required |-> {}],
       [name |-> "slack_get_user_profile", required |-> {"user_id"}],
       [name |-> "get_conversation_info", required |-> {"channel_id"}] >>

ToolNames == {TOOLS[j].name : j \in 1..Len(TOOLS)}

ArgKeys ==
    {"channel_id", "text", "thread_ts", "timestamp", "reaction", "user_id",
     "limit", "cursor"}

(***************************************************************************)
(* nango_credentials                                                       *)
(***************************************************************************)
nango_credentials(reply) ==
    IF reply.kind = "unreachable" THEN Raise(ConnectErrorMsg)
    ELSE IF ~(reply.status \in 200..299)
         THEN Raise(HTTPStatusErrorMsg(reply.status))
    ELSE IF ~reply.json THEN Raise(JSONDecodeErrorMsg)
    ELSE Return(reply.body)

\* d.get(outer, {}).get(inner)
NestedGet(d, outer, inner) ==
    IF ~IsDict(d) THEN Raise(AttributeErrorMsg(d))
    ELSE IF ~HasKey(d, outer) THEN Return(Null)
    ELSE IF ~IsDict(DictGet(d, outer))
         THEN Raise(AttributeErrorMsg(DictGet(d, outer)))
    ELSE Return(DictGet(DictGet(d, outer), inner))

(***************************************************************************)
(* call_tool                                                               *)
(***************************************************************************)
\* arguments.get(k) and arguments.get(k, default)
ArgGet(arguments, k) == IF arguments[k] = Absent THEN Null ELSE arguments[k]
ArgGetDefault(arguments, k, default) ==
    IF arguments[k] = Absent THEN default ELSE arguments[k]

TextContent(text) == << [type |-> "text", text |-> text] >>

ErrorEnvelope(msg) == TextContent(Dumps(Obj(<< <<"error", Str(msg)>> >>)))

\* mutant: slack_reply_to_thread does not test thread_ts
MissingRequiredForgetful(name, arguments) ==
    CASE name \in {"get_conversation_info", "slack_get_channel_history"} ->
            ~Truthy(ArgGet(arguments, "channel_id"))
      [] name \in {"slack_post_message", "slack_reply_to_thread"} ->
            ~Truthy(ArgGet(arguments, "channel_id"))
            \/ ~Truthy(ArgGet(arguments, "text"))
      [] name = "slack_add_reaction" ->
            ~Truthy(ArgGet(arguments, "channel_id"))
            \/ ~Truthy(ArgGet(arguments, "timestamp"))
            \/ ~Truthy(ArgGet(arguments, "reaction"))
      [] name = "slack_get_thread_replies" ->
            ~Truthy(ArgGet(arguments, "channel_id"))
            \/ ~Truthy(ArgGet(arguments, "thread_ts"))
      [] name = "slack_get_user_profile" ->
            ~Truthy(ArgGet(arguments, "user_id"))
      [] OTHER -> FALSE

\* the `if not ...:` test of each branch that has one
MissingRequired(name, arguments) ==
    CASE name = "get_conversation_info" ->
            ~Truthy(ArgGet(arguments, "channel_id"))
      [] name = "slack_post_message" ->
            ~Truthy(ArgGet(arguments, "channel_id"))
            \/ ~Truthy(ArgGet(arguments, "text"))
      [] name = "slack_reply_to_thread" ->
            ~Truthy(ArgGet(arguments, "channel_id"))
            \/ ~Truthy(ArgGet(arguments, "thread_ts"))
            \/ ~Truthy(ArgGet(arguments, "text"))
      [] name = "slack_add_reaction" ->
            ~Truthy(ArgGet(arguments, "channel_id"))
            \/ ~Truthy(ArgGet(arguments, "timestamp"))
            \/ ~Truthy(ArgGet(arguments, "reaction"))
      [] name = "slack_get_channel_history" ->
            ~Truthy(ArgGet(arguments, "channel_id"))
      [] name = "slack_get_thread_replies" ->
            ~Truthy(ArgGet(arguments, "channel_id"))
            \/ ~Truthy(ArgGet(arguments, "thread_ts"))
      [] name = "slack_get_user_profile" ->
            ~Truthy(ArgGet(arguments, "user_id"))
      [] OTHER -> FALSE

MissingMessage(name) ==
    CASE name = "get_conversation_info" ->
            "Missing required argument: channel_id"
      [] name = "slack_post_message" ->
            "Missing required arguments: channel_id and text"
      [] name = "slack_reply_to_thread" ->
            "Missing required arguments: channel_id, thread_ts, and text"
      [] name = "slack_add_reaction" ->
            "Missing required arguments: channel_id, timestamp, and reaction"
      [] name = "slack_get_channel_history" ->
            "Missing required argument: channel_id"
      [] name = "slack_get_thread_replies" ->
            "Missing required arguments: channel_id and thread_ts"
      [] name = "slack_get_user_profile" ->
            "Missing required argument: user_id"

\* mutant: the message does not name the tool
UnknownToolMessageBare(name) == "Unknown tool"

UnknownToolMessage(name) == "Unknown tool: " \o name

\* the try block up to its await: a raise, or the one request the branch sends
Dispatch(name, arguments, slack_client) ==
    IF MissingRequired(name, arguments) THEN Raise(MissingMessage(name))
    ELSE CASE name = "slack_list_channels" ->
                get_channels(slack_client,
                             ArgGetDefault(arguments, "limit", Num(100)),
                             ArgGet(arguments, "cursor"))
           [] name = "get_conversation_info" ->
                get_conversation_info(slack_client,
                                      ArgGet(arguments, "channel_id"))
           [] name = "slack_post_message" ->
                post_message(slack_client, ArgGet(arguments, "channel_id"),
                             ArgGet(arguments, "text"))
           [] name = "slack_reply_to_thread" ->
                post_reply(slack_client, ArgGet(arguments, "channel_id"),
                           ArgGet(arguments, "thread_ts"),
                           ArgGet(arguments, "text"))
           [] name = "slack_add_reaction" ->
                add_reaction(slack_client, ArgGet(arguments, "channel_id"),
                             ArgGet(arguments, "timestamp"),
                             ArgGet(arguments, "reaction"))
           [] name = "slack_get_channel_history" ->
                get_channel_history(slack_client,
                                    ArgGet(arguments, "channel_id"),
                                    ArgGetDefault(arguments, "limit", Num(10)))
           [] name = "slack_get_thread_replies" ->
                get_thread_replies(slack_client,
                                   ArgGet(arguments, "channel_id"),
                                   ArgGet(arguments, "thread_ts"))
           [] name = "slack_get_users" ->
                get_users(slack_client,
                          ArgGetDefault(arguments, "limit", Num(100)),
                          ArgGet(arguments, "cursor"))
           [] name = "slack_get_user_profile" ->
                get_user_profile(slack_client, ArgGet(arguments, "user_id"))
           [] OTHER -> Raise(UnknownToolMessage(name))

\* mutant: the remote body is wrapped before it is serialized
RespondReshaped(name, outcome) ==
    IF outcome.kind = "raise" THEN ErrorEnvelope(outcome.msg)
    ELSE IF name = "get_conversation_info" /\ ~Truthy(outcome.v)
         THEN TextContent(Dumps(Obj(<< <<"error",
                              Str("Channel not found or is archived")>> >>)))
    ELSE TextContent(Dumps(Obj(<< <<"result", outcome.v>> >>)))

\* the try block after its await, and the except clause
Respond(name, outcome) ==
    IF outcome.kind = "raise" THEN ErrorEnvelope(outcome.msg)
    ELSE IF name = "get_conversation_info" /\ ~Truthy(outcome.v)
         THEN TextContent(Dumps(Obj(<< <<"error",
                              Str("Channel not found or is archived")>> >>)))
    ELSE TextContent(Dumps(outcome.v))

(***************************************************************************)
(* The environment: what the host may ask, what the broker and the         *)
(* messaging platform may answer.                                          *)
(***************************************************************************)
StrVals(valid) == {Absent, Null, Str(""), Str(valid)}

ValidOf(k) ==
    CASE k = "channel_id" -> "C123"
      [] k = "text" -> "hi"
      [] k = "thread_ts" -> "1234567890.123456"
      [] k = "timestamp" -> "1234567890.000100"
      [] k = "reaction" -> "thumbsup"
      [] k = "user_id" -> "U42"

LimitVals ==
    {Absent, Null} \cup {Num(n) : n \in {-1, 0, 1, 100, 199, 200, 201, 500}}

CursorVals == {Absent, Str(""), Str("dGVhbTpD")}

ValsOf(k) ==
    CASE k = "limit" -> LimitVals
      [] k = "cursor" -> CursorVals
      [] OTHER -> StrVals(ValidOf(k))

UnknownNames == {"slack_delete_message", "list_tools"}

\* the keys a branch of call_tool reads; no branch reads any other
KeysRead(name) ==
    CASE name \in {"slack_list_channels", "slack_get_users"} ->
            {"limit", "cursor"}
      [] name = "slack_get_channel_history" -> {"channel_id", "limit"}
      [] name \in ToolNames ->
            (CHOOSE tl \in {TOOLS[j] : j \in 1..Len(TOOLS)} :
                tl.name = name).required
      [] OTHER -> {"channel_id"}

ArgsFor(name) ==
    {[k \in ArgKeys |-> IF k \in KeysRead(name) THEN f[k] ELSE Absent] :
        f \in {g \in [KeysRead(name) -> UNION {ValsOf(k) : k \in KeysRead(name)}] :
                 \A k \in KeysRead(name) : g[k] \in ValsOf(k)}}

Inputs ==
    UNION {{[name |-> n, args |-> a] : a \in ArgsFor(n)} :
             n \in ToolNames \cup UnknownNames}

Token(k) == "xoxb-" \o IntStr(k)
Team(k) == "T" \o IntStr(k)

Unreachable == [kind |-> "unreachable", status |-> 0, json |-> FALSE, body |-> Null]
Response(status, body) ==
    [kind |-> "response", status |-> status, json |-> TRUE, body |-> body]
NonJson(status) ==
    [kind |-> "response", status |-> status, json |-> FALSE, body |-> Null]

FullCredentials(k) ==
    Obj(<< <<"credentials", Obj(<< <<"access_token", Str(Token(k))>> >>)>>,
           <<"connection_config", Obj(<< <<"team.id", Str(Team(k))>> >>)>> >>)
NoTokenCredentials(k) ==
    Obj(<< <<"credentials", Obj(<< <<"type", Str("OAUTH2")>> >>)>>,
           <<"connection_config", Obj(<< <<"team.id", Str(Team(k))>> >>)>> >>)
NoTeamCredentials(k) ==
    Obj(<< <<"credentials", Obj(<< <<"access_token", Str(Token(k))>> >>)>>,
           <<"connection_config", Obj(<<>>)>> >>)

\* the broker's answers to the k-th fetch
BrokerReplies(k) ==
    {Unreachable,
     Response(401, Obj(<< <<"error", Str("unauthorized")>> >>)),
     Response(500, FullCredentials(k)),
     NonJson(502),
     NonJson(200),
     Response(200, FullCredentials(k)),
     Response(200, NoTokenCredentials(k)),
     Response(200, NoTeamCredentials(k)),
     Response(200, Obj(<<>>)),
     Response(200, Obj(<< <<"credentials", Null>> >>)),
     Response(200, Arr(<<>>))}

Channel(archived) ==
    Obj(<< <<"id", Str("C123")>>, <<"is_archived", Bool(archived)>> >>)

SlackBodies ==
    {Obj(<< <<"ok", Bool(TRUE)>>, <<"ts", Str("1.1")>> >>),
     Obj(<< <<"ok", Bool(FALSE)>>, <<"error", Str("channel_not_found")>> >>),
     Obj(<< <<"ok", Bool(TRUE)>>, <<"channel", Channel(FALSE)>> >>),
     Obj(<< <<"ok", Bool(TRUE)>>, <<"channel", Channel(TRUE)>> >>),
     Arr(<<>>)}

\* the platform's answers to a call
SlackReplies ==
    {Unreachable, NonJson(200), NonJson(502),
     Response(429, Obj(<< <<"ok", Bool(FALSE)>>, <<"error", Str("ratelimited")>> >>))}
    \cup {Response(200, b) : b \in SlackBodies}

(***************************************************************************)
(* State                                                                   *)
(***************************************************************************)
VARIABLES
    pc,       \* where each invocation of call_tool stands
    name,     \* its tool name
    args,     \* its argument dict
    fetchId,  \* which fetch of the broker's it sent (0: none)
    bresp,    \* the answer it got from the broker
    cred,     \* its local `credentials`
    client,   \* its local `slack_client`
    req,      \* the request it sent to the platform
    resp,     \* the answer it got from the platform
    result,   \* what it returned
    exc,      \* the exception that left it
    nFetch,   \* requests it sent to the broker
    nSlack,   \* requests it sent to the platform
    issued,   \* fetches the broker has been sent
    spent     \* fetches of invocations that are over

vars ==
    <<pc, name, args, fetchId, bresp, cred, client, req, resp, result, exc, nFetch,
      nSlack, issued, spent>>

NoArgs == [k \in ArgKeys |-> Absent]
NoCred == Absent
NoResp == [kind |-> "none"]

Init ==
    /\ pc = [i \in Calls |-> "idle"]
    /\ name = [i \in Calls |-> ""]
    /\ args = [i \in Calls |-> NoArgs]
    /\ fetchId = [i \in Calls |-> 0]
    /\ bresp = [i \in Calls |-> NoResp]
    /\ cred = [i \in Calls |-> NoCred]
    /\ client = [i \in Calls |-> NoClient]
    /\ req = [i \in Calls |-> NoReq]
    /\ resp = [i \in Calls |-> NoResp]
    /\ result = [i \in Calls |-> <<>>]
    /\ exc = [i \in Calls |-> ""]
    /\ nFetch = [i \in Calls |-> 0]
    /\ nSlack = [i \in Calls |-> 0]
    /\ issued = 0
    /\ spent = {}

(***************************************************************************)
(* Steps of call_tool                                                      *)
(***************************************************************************)
\* the host's CallToolRequest arrives: call_tool runs to `await
\* nango_credentials(...)`, which sends the GET to the broker
Receive(i, n, a) ==
    /\ pc[i] = "idle"
    /\ issued < MaxIssued
    /\ pc' = [pc EXCEPT ![i] = "fetching"]
    /\ name' = [name EXCEPT ![i] = n]
    /\ args' = [args EXCEPT ![i] = a]
    /\ issued' = issued + 1
    /\ fetchId' = [fetchId EXCEPT ![i] = issued + 1]
    /\ nFetch' = [nFetch EXCEPT ![i] = @ + 1]
    /\ UNCHANGED <<bresp, cred, client, req, resp, result, exc, nSlack, spent>>

\* an exception leaves call_tool
Escapes(i, msg) ==
    /\ pc' = [pc EXCEPT ![i] = "raised"]
    /\ exc' = [exc EXCEPT ![i] = msg]
    /\ UNCHANGED <<client, req, result, nSlack>>

\* from the client's construction to the next await or return
Enter(i, slack_client) ==
    LET d == Dispatch(name[i], args[i], slack_client) IN
    /\ client' = [client EXCEPT ![i] = slack_client]
    /\ exc' = exc
    /\ IF d.kind = "call"
       THEN /\ pc' = [pc EXCEPT ![i] = "calling"]
            /\ req' = [req EXCEPT ![i] = d.req]
            /\ nSlack' = [nSlack EXCEPT ![i] = @ + 1]
            /\ result' = result
       ELSE /\ pc' = [pc EXCEPT ![i] = "done"]
            /\ result' = [result EXCEPT ![i] = Respond(name[i], d)]
            /\ UNCHANGED <<req, nSlack>>

\* call_tool resumes with the outcome c of nango_credentials
AfterFetch(i, c) ==
    LET bot_token == NestedGet(c.v, "credentials", "access_token")
        team_id == NestedGet(c.v, "connection_config", "team.id")
    IN
    /\ cred' = [cred EXCEPT ![i] = IF c.kind = "return" THEN c.v ELSE NoCred]
    /\ IF c.kind = "raise" THEN Escapes(i, c.msg)
       ELSE IF bot_token.kind = "raise" THEN Escapes(i, bot_token.msg)
       ELSE IF team_id.kind = "raise" THEN Escapes(i, team_id.msg)
       ELSE Enter(i, SlackClientInit(bot_token.v, team_id.v))
    /\ UNCHANGED <<name, args, fetchId, resp, nFetch, issued, spent>>

\* mutant: credentials another invocation holds are used instead of one's own
BrokerReplyCached(i, r) ==
    /\ pc[i] = "fetching"
    /\ bresp' = [bresp EXCEPT ![i] = r]
    /\ AfterFetch(i, IF \E j \in Calls \ {i} : cred[j] # NoCred
                     THEN Return(cred[CHOOSE j \in Calls \ {i} : cred[j] # NoCred])
                     ELSE nango_credentials(r))

\* the broker's answer arrives
BrokerReply(i, r) ==
    /\ pc[i] = "fetching"
    /\ bresp' = [bresp EXCEPT ![i] = r]
    /\ AfterFetch(i, nango_credentials(r))

\* mutant: a failed call is sent once more
SlackReplyRetry(i, r) ==
    /\ pc[i] = "calling"
    /\ resp' = [resp EXCEPT ![i] = r]
    /\ IF MethodResult(name[i], r).kind = "raise" /\ nSlack[i] < 2
       THEN /\ nSlack' = [nSlack EXCEPT ![i] = @ + 1]
            /\ UNCHANGED <<pc, result>>
       ELSE /\ result' = [result EXCEPT ![i] =
                            Respond(name[i], MethodResult(name[i], r))]
            /\ pc' = [pc EXCEPT ![i] = "done"]
            /\ nSlack' = nSlack
    /\ UNCHANGED <<name, args, fetchId, bresp, cred, client, req, exc, nFetch,
                   issued, spent>>

\* the platform's answer arrives: the method returns or raises, call_tool returns
SlackReply(i, r) ==
    /\ pc[i] = "calling"
    /\ resp' = [resp EXCEPT ![i] = r]
    /\ result' = [result EXCEPT ![i] = Respond(name[i], MethodResult(name[i], r))]
    /\ pc' = [pc EXCEPT ![i] = "done"]
    /\ UNCHANGED <<name, args, fetchId, bresp, cred, client, req, exc, nFetch,
                   nSlack, issued, spent>>

\* the invocation is over: its frame and locals are gone
Deliver(i) ==
    /\ pc[i] \in {"done", "raised"}
    /\ pc' = [pc EXCEPT ![i] = "idle"]
    /\ name' = [name EXCEPT ![i] = ""]
    /\ args' = [args EXCEPT ![i] = NoArgs]
    /\ spent' = spent \cup {fetchId[i]}
    /\ fetchId' = [fetchId EXCEPT ![i] = 0]
    /\ bresp' = [bresp EXCEPT ![i] = NoResp]
    /\ cred' = [cred EXCEPT ![i] = NoCred]
    /\ client' = [client EXCEPT ![i] = NoClient]
    /\ req' = [req EXCEPT ![i] = NoReq]
    /\ resp' = [resp EXCEPT ![i] = NoResp]
    /\ result' = [result EXCEPT ![i] = <<>>]
    /\ exc' = [exc EXCEPT ![i] = ""]
    /\ nFetch' = [nFetch EXCEPT ![i] = 0]
    /\ nSlack' = [nSlack EXCEPT ![i] = 0]
    /\ UNCHANGED issued

\* the transport hands over one request at a time
OneAtATime(i) == \A j \in Calls \ {i} : pc[j] = "idle"

Next ==
    \E i \in Calls :
        \/ \E inp \in Inputs : OneAtATime(i) /\ Receive(i, inp.name, inp.args)
        \/ \E r \in BrokerReplies(fetchId[i]) : BrokerReply(i, r)
        \/ \E r \in SlackReplies : SlackReply(i, r)
        \/ Deliver(i)

Spec == Init /\ [][Next]_vars

(***************************************************************************)
(* The transport hands over requests while earlier ones are suspended at   *)
(* their awaits; the steps of the invocations interleave.                  *)
(***************************************************************************)
ConcInputs ==
    {[name |-> "slack_post_message",
      args |-> [NoArgs EXCEPT !["channel_id"] = Str("C123"), !["text"] = Str("hi")]],
     [name |-> "slack_list_channels",
      args |-> [NoArgs EXCEPT !["limit"] = Num(500)]]}

ConcBrokerReplies(k) ==
    {Response(401, Obj(<< <<"error", Str("unauthorized")>> >>)),
     Response(200, FullCredentials(k)),
     Response(200, NoTokenCredentials(k))}

ConcSlackReplies ==
    {NonJson(502),
     Response(200, Obj(<< <<"ok", Bool(TRUE)>>, <<"ts", Str("1.1")>> >>))}

NextConc ==
    \E i \in Calls :
        \/ \E inp \in ConcInputs : Receive(i, inp.name, inp.args)
        \/ \E r \in ConcBrokerReplies(fetchId[i]) : BrokerReply(i, r)
        \/ \E r \in ConcSlackReplies : SlackReply(i, r)
        \/ Deliver(i)

SpecConc == Init /\ [][NextConc]_vars

(***************************************************************************)
(* Vocabulary of the properties                                            *)
(***************************************************************************)
Registry == {TOOLS[j] : j \in 1..Len(TOOLS)}
RequiredOf(n) == (CHOOSE tl \in Registry : tl.name = n).required

EmptyOrAbsent(v) == v \in {Absent, Null, Str("")}

NotFoundText == "{\"error\": \"Channel not found or is archived\"}"

KnownMessages ==
    {ConnectErrorMsg, JSONDecodeErrorMsg, "Channel not found or is archived",
     HTTPStatusErrorMsg(401), HTTPStatusErrorMsg(500), HTTPStatusErrorMsg(502)}
    \cup {AttributeErrorMsg(v) : v \in {Null, Str("x"), Arr(<<>>), Num(1)}}
    \cup {MinTypeErrorMsg(Null)}
    \cup {MissingMessage(n) : n \in {tl.name : tl \in {u \in Registry : u.required # {}}}}
    \cup {UnknownToolMessage(n) : n \in UnknownNames}

\* a single text item whose text is the JSON object {"error": <message>}
IsErrorEnvelope(res) ==
    /\ Len(res) = 1
    /\ res[1].type = "text"
    /\ \E m \in KnownMessages : res[1].text = "{\"error\": \"" \o m \o "\"}"

\* the invocation is past its credential fetch, which gave it credentials
FetchSucceeded(i) == pc[i] \in {"calling", "done"}

Started(i) == pc[i] \in {"calling", "done", "raised"}

\* the broker's answer carries an access token and a tenant id
HasTokenAndTeam(r) ==
    /\ r.json
    /\ IsDict(r.body)
    /\ IsDict(DictGet(r.body, "credentials"))
    /\ DictGet(DictGet(r.body, "credentials"), "access_token").t = "str"
    /\ IsDict(DictGet(r.body, "connection_config"))
    /\ DictGet(DictGet(r.body, "connection_config"), "team.id").t = "str"

BadBrokerAnswer(r) ==
    /\ r.kind = "response"
    /\ ~(r.status \in 200..299) \/ ~HasTokenAndTeam(r)

ParamOf(rq, k) ==
    rq.params[CHOOSE j \in 1..Len(rq.params) : rq.params[j][1] = k][2]

\* C1: every failure of a call (credential fetch, validation, remote call,
\* JSON decoding) ends in a returned error envelope; no exception leaves
\* call_tool.
C1_NoExceptionEscapes ==
    \A i \in Calls :
        /\ pc[i] # "raised"
        /\ (pc[i] = "done"
            /\ (\/ resp[i].kind = "unreachable"
                \/ (resp[i].kind = "response" /\ ~resp[i].json)
                \/ MissingRequired(name[i], args[i])
                \/ name[i] \notin ToolNames))
           => IsErrorEnvelope(result[i])

\* C2: a non-2xx answer of the broker, or one without the access token or
\* the tenant id, ends in an error envelope, with no SlackClient built and
\* no call to the platform.
C2_BadCredentialsStopTheCall ==
    \A i \in Calls :
        (Started(i) /\ BadBrokerAnswer(bresp[i]))
        => /\ pc[i] = "done"
           /\ IsErrorEnvelope(result[i])
           /\ client[i] = NoClient
           /\ nSlack[i] = 0

\* C3: once credentials are fetched, a tool with required parameters called
\* with one of them absent or empty returns an error envelope and sends
\* nothing to the platform.
C3_MissingRequiredShortCircuits ==
    \A i \in Calls :
        (/\ FetchSucceeded(i)
         /\ name[i] \in ToolNames
         /\ \E k \in RequiredOf(name[i]) : EmptyOrAbsent(args[i][k]))
        => /\ pc[i] = "done"
           /\ IsErrorEnvelope(result[i])
           /\ nSlack[i] = 0
           /\ req[i] = NoReq

C3_Witness ==
    \E i \in Calls :
        /\ pc[i] = "done"
        /\ name[i] = "slack_reply_to_thread"
        /\ args[i]["channel_id"] = Str("C123")
        /\ args[i]["text"] = Str("hi")
        /\ args[i]["thread_ts"] = Str("")
        /\ result[i][1].text =
             "{\"error\": \"Missing required arguments: channel_id, thread_ts, and text\"}"
        /\ nSlack[i] = 0

\* C4: once credentials are fetched, a name outside the registry returns
\* exactly {"error": "Unknown tool: <name>"} and sends nothing to the platform.
C4_UnknownTool ==
    \A i \in Calls :
        (FetchSucceeded(i) /\ name[i] \notin ToolNames)
        => /\ pc[i] = "done"
           /\ result[i] = << [type |-> "text",
                              text |-> "{\"error\": \"Unknown tool: " \o name[i] \o "\"}"] >>
           /\ nSlack[i] = 0
           /\ req[i] = NoReq

C4_Witness ==
    \E i \in Calls :
        /\ pc[i] = "done"
        /\ name[i] = "slack_delete_message"
        /\ args[i]["channel_id"] = Str("C123")
        /\ result[i][1].text = "{\"error\": \"Unknown tool: slack_delete_message\"}"
        /\ nSlack[i] = 0

\* the platform answered, and its answer reports a failure
FailureAnswer(r) ==
    /\ r.kind = "response"
    /\ \/ ~r.json
       \/ ~(r.status \in 200..299)
       \/ (IsDict(r.body) /\ DictGet(r.body, "ok") = Bool(FALSE))

\* the platform answered 2xx with a JSON object that says ok
SuccessAnswer(r) ==
    /\ r.kind = "response"
    /\ r.json
    /\ r.status \in 200..299
    /\ IsDict(r.body)
    /\ DictGet(r.body, "ok") = Bool(TRUE)

\* C5 as stated: a non-success or malformed answer of the platform ends in
\* the error envelope {"error": <message>}, after one remote call only.
C5_FailureAnswerGivesEnvelope ==
    \A i \in Calls :
        (pc[i] = "done" /\ FailureAnswer(resp[i]))
        => IsErrorEnvelope(result[i]) /\ nSlack[i] = 1

\* C5 amended: a remote call that gets no answer or a non-JSON body ends in
\* the error envelope; a JSON body is serialized into the payload whatever
\* its status and its ok field say, get_conversation_info excepted, which
\* answers a JSON object whose ok is not true with its "not found" envelope;
\* a single remote call is made.
C5_OnlyTransportFailuresGiveEnvelope ==
    \A i \in Calls :
        (pc[i] = "done" /\ resp[i] # NoResp)
        => /\ nSlack[i] = 1
           /\ (resp[i].kind = "unreachable" \/ ~resp[i].json)
                => IsErrorEnvelope(result[i])
           /\ (FailureAnswer(resp[i]) /\ resp[i].json
               /\ name[i] # "get_conversation_info")
                => /\ result[i][1].text = Dumps(resp[i].body)
                   /\ ~IsErrorEnvelope(result[i])
                   /\ (resp[i].status = 429) =>
                        result[i][1].text = "{\"ok\": false, \"error\": \"ratelimited\"}"
           /\ (FailureAnswer(resp[i]) /\ resp[i].json /\ IsDict(resp[i].body)
               /\ name[i] = "get_conversation_info")
                => result[i][1].text = NotFoundText

C5_Witness ==
    \E i \in Calls :
        /\ pc[i] = "done"
        /\ name[i] = "slack_post_message"
        /\ resp[i] = Response(200, Obj(<< <<"ok", Bool(FALSE)>>,
                                         <<"error", Str("channel_not_found")>> >>))
        /\ result[i][1].text = "{\"ok\": false, \"error\": \"channel_not_found\"}"
        /\ nSlack[i] = 1

\* C6 as stated: for each of the 9 operations a successful remote answer B
\* is the payload, verbatim.
C6_SuccessBodyVerbatim ==
    \A i \in Calls :
        (pc[i] = "done" /\ SuccessAnswer(resp[i]))
        => result[i] = << [type |-> "text", text |-> Dumps(resp[i].body)] >>

\* C6 amended: for each operation but get_conversation_info a successful
\* remote answer B is the payload, verbatim; get_conversation_info never
\* returns B: its payload is B's channel member when that is a non-archived
\* channel object.
C6_SuccessBodyVerbatimButInfo ==
    \A i \in Calls :
        (pc[i] = "done" /\ SuccessAnswer(resp[i]))
        => IF name[i] # "get_conversation_info"
           THEN /\ result[i] = << [type |-> "text", text |-> Dumps(resp[i].body)] >>
                /\ (resp[i].body = Obj(<< <<"ok", Bool(TRUE)>>, <<"ts", Str("1.1")>> >>))
                     => result[i][1].text = "{\"ok\": true, \"ts\": \"1.1\"}"
           ELSE /\ result[i][1].text # Dumps(resp[i].body)
                /\ (resp[i].body = Obj(<< <<"ok", Bool(TRUE)>>, <<"channel", Channel(FALSE)>> >>))
                     => result[i][1].text = "{\"id\": \"C123\", \"is_archived\": false}"

C6_Witness ==
    \E i \in Calls :
        /\ pc[i] = "done"
        /\ name[i] = "slack_post_message"
        /\ args[i]["channel_id"] = Str("C123")
        /\ args[i]["text"] = Str("hi")
        /\ resp[i].kind = "response"
        /\ resp[i].body = Obj(<< <<"ok", Bool(TRUE)>>, <<"ts", Str("1.1")>> >>)
        /\ result[i][1].text = "{\"ok\": true, \"ts\": \"1.1\"}"

\* the answer is a JSON object that says ok and holds a channel object
\* flagged (or not) archived
ChannelAnswer(r, archived) ==
    /\ r.kind = "response"
    /\ r.json
    /\ IsDict(r.body)
    /\ DictGet(r.body, "ok") = Bool(TRUE)
    /\ IsDict(DictGet(r.body, "channel"))
    /\ DictGet(DictGet(r.body, "channel"), "is_archived") = Bool(archived)

\* the answer is a JSON object that is not ok or holds no channel
MissingChannelAnswer(r) ==
    /\ r.kind = "response"
    /\ r.json
    /\ IsDict(r.body)
    /\ DictGet(r.body, "ok") # Bool(TRUE) \/ ~HasKey(r.body, "channel")

\* C7: get_conversation_info answers an archived channel with the "not found"
\* envelope, the same it gives for a missing channel, and returns the channel
\* object only for an ok answer holding a channel that is not archived.
C7_ArchivedIsNotFound ==
    \A i \in Calls :
        (pc[i] = "done" /\ name[i] = "get_conversation_info" /\ resp[i] # NoResp)
        => /\ ~EmptyOrAbsent(args[i]["channel_id"])
           /\ ChannelAnswer(resp[i], TRUE) => result[i][1].text = NotFoundText
           /\ MissingChannelAnswer(resp[i]) => result[i][1].text = NotFoundText
           /\ ~IsErrorEnvelope(result[i])
                => /\ ChannelAnswer(resp[i], FALSE)
                   /\ result[i][1].text = Dumps(DictGet(resp[i].body, "channel"))

C7_Witness ==
    \E i \in Calls :
        /\ pc[i] = "done"
        /\ name[i] = "get_conversation_info"
        /\ args[i]["channel_id"] = Str("C123")
        /\ resp[i] = Response(200, Obj(<< <<"ok", Bool(TRUE)>>,
                                         <<"channel", Channel(TRUE)>> >>))
        /\ result[i][1].text = NotFoundText

\* the integer a decimal string writes
Decimal(str) == CHOOSE n \in -9..999 : IntStr(n) = str

\* C8: slack_list_channels and slack_get_users forward min(limit, 200) for a
\* numeric limit, never more than 200, and 100 when no limit is given.
C8_LimitClamped ==
    \A i \in Calls :
        (pc[i] = "calling" /\ name[i] \in {"slack_list_channels", "slack_get_users"})
        => /\ args[i]["limit"].t \in {"num", "absent"}
           /\ Decimal(ParamOf(req[i], "limit")) <= 200
           /\ args[i]["limit"].t = "num" =>
                Decimal(ParamOf(req[i], "limit")) =
                    (IF args[i]["limit"].n <= 200 THEN args[i]["limit"].n ELSE 200)
           /\ args[i]["limit"] = Absent => ParamOf(req[i], "limit") = "100"

C8_Witness ==
    \E i \in Calls :
        /\ pc[i] = "calling"
        /\ name[i] = "slack_get_users"
        /\ args[i]["limit"] = Num(500)
        /\ args[i]["cursor"] = Absent
        /\ req[i].url = "https://slack.com/api/users.list?limit=200&team_id=T1"

\* C9: an invocation sends one credential fetch, which is over before its
\* call to the platform; it sends at most one such call, none after a failed
\* fetch and none after a failed call; the credentials it uses are not those
\* of an invocation that is over.
C9_OneFetchThenAtMostOneCall ==
    \A i \in Calls :
        /\ pc[i] # "idle" => nFetch[i] = 1
        /\ pc[i] = "idle" => nFetch[i] = 0 /\ nSlack[i] = 0
        /\ nSlack[i] <= 1
        /\ pc[i] \in {"fetching", "raised"} => nSlack[i] = 0 /\ req[i] = NoReq
        /\ nSlack[i] = 1 <=> req[i] # NoReq
        /\ req[i] # NoReq => bresp[i] # NoResp /\ cred[i] # NoCred
        /\ resp[i] # NoResp => pc[i] = "done" /\ nSlack[i] = 1
        /\ req[i] # NoReq =>
             /\ fetchId[i] \notin spent
             /\ \A k \in spent : req[i].headers.Authorization # "Bearer " \o Token(k)

C9_Witness ==
    \E i \in Calls :
        /\ pc[i] = "done"
        /\ resp[i] = Unreachable
        /\ nFetch[i] = 1
        /\ nSlack[i] = 1
        /\ fetchId[i] = 2
        /\ spent = {1}
        /\ req[i].headers.Authorization = "Bearer xoxb-2"

\* the access token and the tenant id the broker's answer holds
TokenIn(r) ==
    IF IsDict(DictGet(r.body, "credentials"))
       /\ HasKey(DictGet(r.body, "credentials"), "access_token")
    THEN DictGet(DictGet(r.body, "credentials"), "access_token").s
    ELSE "None"
TeamIn(r) ==
    IF IsDict(DictGet(r.body, "connection_config"))
       /\ HasKey(DictGet(r.body, "connection_config"), "team.id")
    THEN DictGet(DictGet(r.body, "connection_config"), "team.id").s
    ELSE "None"

\* C10: with invocations interleaved at their awaits, each call to the
\* platform carries the token and the tenant id of its own invocation's
\* fetch, never another's, and each invocation returns the result of its
\* own remote call.
C10_OwnCredentialsOwnResult ==
    \A i \in Calls :
        /\ req[i] # NoReq =>
             /\ req[i].headers.Authorization = "Bearer " \o TokenIn(bresp[i])
             /\ req[i].headers.Authorization \in
                    {"Bearer None", "Bearer " \o Token(fetchId[i])}
             /\ \A j \in Calls \ {i} :
                    req[i].headers.Authorization # "Bearer " \o Token(fetchId[j])
             /\ client[i].team_id \in {Null, Str(Team(fetchId[i]))}
             /\ req[i].method = "GET" =>
                    ParamOf(req[i], "team_id") = TeamIn(bresp[i])
        /\ (pc[i] = "done" /\ resp[i] # NoResp
            /\ name[i] # "get_conversation_info") =>
             IF resp[i].json
             THEN result[i] = << [type |-> "text", text |-> Dumps(resp[i].body)] >>
             ELSE IsErrorEnvelope(result[i])

C10_Witness ==
    \E i, j \in Calls :
        /\ pc[i] = "calling"
        /\ pc[j] = "calling"
        /\ fetchId[i] = 1
        /\ fetchId[j] = 2
        /\ bresp[i] # bresp[j]
        /\ req[i].headers.Authorization = "Bearer xoxb-1"
        /\ req[j].headers.Authorization = "Bearer xoxb-2"

====
